---- MODULE Spec2Model ----
(***************************************************************************)
(* State-machine model of src/server.js: the CSV loader, the in-memory     *)
(* record store, the replay cursor driven by a repeating timer, and the    *)
(* server-sent-events fan-out to the registered stream clients.            *)
(*                                                                         *)
(* Numbers are kept in halves (43 stands for 21.5): every value of the     *)
(* model is then a double exactly, and the sums and products the code      *)
(* computes on such values are exact in its double arithmetic.  A          *)
(* JavaScript number is the record [nan, v]; a CSV cell is the record      *)
(* [p, v, lead] with p one of "absent" (no such column: undefined), "text" *)
(* (parseFloat gives NaN) or "num" (parseFloat gives v), and lead the      *)
(* number parseInt reads from the leading characters of the text.          *)
(* The wall-clock payload field realtime_timestamp is not part of the      *)
(* model: no claim reads it.                                               *)
(***************************************************************************)
EXTENDS Integers, Sequences, FiniteSets, TLC

\* ------------------------------------------------------------------ bounds
MaxRows == 2
MaxClients == 2
MaxSubscribers == 3
MaxTicks == 2
MaxSeries == 3
MaxMotion == 8

\* ------------------------------------------------------- values and parsing
NaN == [nan |-> TRUE, v |-> 0]
Num(n) == [nan |-> FALSE, v |-> n]

Absent == [p |-> "absent", v |-> 0, lead |-> NaN]
Text == [p |-> "text", v |-> 0, lead |-> NaN]

\* a text parseFloat reads as n and parseInt as lead: parseInt takes the
\* leading sign and digits only, so "0.25e1" is NumText(5, Num(0)), "1e2" is
\* NumText(200, Num(2)) and ".5" is NumText(1, NaN)
NumText(n, lead) == [p |-> "num", v |-> n, lead |-> lead]

\* the integer part of n, truncated toward zero
Trunc(n) == IF n >= 0 THEN (n \div 2) * 2 ELSE 0 - (((0 - n) \div 2) * 2)

\* a number written as a plain decimal, such as "21.5" or "-1": its leading
\* digits are its integer part
Cell(n) == NumText(n, Num(Trunc(n)))

\* parseFloat of a CSV cell: NaN for undefined and for non-numeric text
ParseFloat(c) == IF c.p = "num" THEN Num(c.v) ELSE NaN

\* parseInt of a CSV cell: the integer its leading characters spell, NaN when
\* they spell none
ParseInt(c) == c.lead

\* JavaScript truthiness of a number, and the || operator on numbers
Truthy(x) == ~x.nan /\ x.v # 0
OrElse(a, b) == IF Truthy(a) THEN a ELSE b

\* the || operator on strings ("" stands for undefined or the empty string)
OrElseStr(a, b) == IF a # "" THEN a ELSE b

IsNaN(x) == x.nan

Now == "now"

\* the object built from one parsed CSV row; rid stands for the random id
ProcessRow(row, rid) ==
    [ timestamp |-> OrElseStr(row.time, OrElseStr(row.timestamp, OrElseStr(row.date, Now))),
      battery_voltage |-> OrElse(ParseFloat(row.battery_voltage),
                           OrElse(ParseFloat(row.battery),
                             OrElse(ParseFloat(row.voltage), Num(0)))),
      humidity |-> OrElse(ParseFloat(row.humidity), OrElse(ParseFloat(row.hum), Num(0))),
      motion |-> OrElse(ParseInt(row.motion), OrElse(ParseFloat(row.motion), Num(0))),
      temperature |-> OrElse(ParseFloat(row.temperature), OrElse(ParseFloat(row.temp), Num(0))),
      id |-> rid ]

\* the rows the CSV file is made of
RowA ==
    [ time |-> "t1", timestamp |-> "", date |-> "",
      battery_voltage |-> Cell(7), battery |-> Absent, voltage |-> Absent,
      humidity |-> Cell(80), hum |-> Absent,
      motion |-> Cell(2),
      temperature |-> Cell(43), temp |-> Absent ]

RowB ==
    [ time |-> "", timestamp |-> "", date |-> "d2",
      battery_voltage |-> Absent, battery |-> Text, voltage |-> Cell(6),
      humidity |-> Cell(0), hum |-> Cell(110),
      motion |-> NumText(5, Num(0)),
      temperature |-> Absent, temp |-> Cell(36) ]

\* row i of sensor_data.csv: the two kinds of row alternate
FileRow(i) == IF i % 2 = 1 THEN RowA ELSE RowB

\* the possible contents of sensor_data.csv: 0..MaxRows rows
Files == {[i \in 1..n |-> FileRow(i)] : n \in 0..MaxRows}

Handles == 1..MaxClients

\* the connections of the registry taken alone
HubHandles == 1..MaxSubscribers

\* --------------------------------------------------------------- the state
VARIABLES
    fileExists,          \* fs.existsSync('sensor_data.csv')
    csvFile,             \* the rows of sensor_data.csv
    phase,               \* "starting", "missing", "streaming", "ended", "errored"
    pos,                 \* rows the parser has emitted so far
    sensorData,          \* let sensorData
    allDataLoaded,       \* let allDataLoaded
    realtimeConnections, \* let realtimeConnections, in insertion order
    currentDataIndex,    \* let currentDataIndex
    timers,              \* repeating timers created by setInterval
    uncaught,            \* an exception reached the event loop: the process is gone
    chan,                \* per client: "none", "open", "closed"
    clientId,            \* per client: client.id
    frames,              \* per client: the frames its channel has carried
    failed,              \* the clients a res.write did not reach
    ticks                \* timer callbacks run so far

vars == << fileExists, csvFile, phase, pos, sensorData, allDataLoaded,
           realtimeConnections, currentDataIndex, timers, uncaught,
           chan, clientId, frames, failed, ticks >>

loadVars == << fileExists, csvFile, phase, pos, sensorData, allDataLoaded, timers >>
clientVars == << realtimeConnections, chan, clientId, frames, failed >>

Range(s) == {s[i] : i \in 1..Len(s)}

Undefined == [undefined |-> TRUE]
NoData == [error |-> "No data available"]

Init ==
    /\ fileExists \in BOOLEAN
    /\ csvFile \in Files
    /\ (~fileExists => csvFile = <<>>)
    /\ phase = "starting"
    /\ pos = 0
    /\ sensorData = <<>>
    /\ allDataLoaded = FALSE
    /\ realtimeConnections = <<>>
    /\ currentDataIndex = 0
    /\ timers = 0
    /\ uncaught = FALSE
    /\ chan = [h \in Handles |-> "none"]
    /\ clientId = [h \in Handles |-> 0]
    /\ frames = [h \in Handles |-> <<>>]
    /\ failed = {}
    /\ ticks = 0

\* the process is up and serving: the listen callback has run, nothing uncaught
Serving == phase # "starting" /\ ~uncaught

\* ------------------------------------------------------------------ loading
\* the listen callback that starts the simulation itself, besides the load
ListenAlsoStarts ==
    /\ phase = "starting"
    /\ ~uncaught
    /\ IF ~fileExists
       THEN /\ phase' = "missing"
            /\ UNCHANGED sensorData
       ELSE /\ sensorData' = <<>>
            /\ phase' = "streaming"
    /\ timers' = timers + 1
    /\ UNCHANGED << fileExists, csvFile, pos, allDataLoaded,
                    currentDataIndex, uncaught, ticks >>
    /\ UNCHANGED clientVars

\* app.listen callback -> loadAllCSVData()
Listen ==
    /\ phase = "starting"
    /\ ~uncaught
    /\ IF ~fileExists
       THEN /\ phase' = "missing"
            /\ UNCHANGED sensorData
       ELSE /\ sensorData' = <<>>
            /\ phase' = "streaming"
    /\ UNCHANGED << fileExists, csvFile, pos, allDataLoaded, timers,
                    currentDataIndex, uncaught, ticks >>
    /\ UNCHANGED clientVars

\* .on('data', row => ...)
OnData ==
    /\ phase = "streaming"
    /\ ~uncaught
    /\ pos < Len(csvFile)
    /\ LET processedRow == ProcessRow(csvFile[pos + 1], pos + 1)
       IN  sensorData' =
             IF ~IsNaN(processedRow.temperature) /\ ~IsNaN(processedRow.humidity)
             THEN Append(sensorData, processedRow)
             ELSE sensorData
    /\ pos' = pos + 1
    /\ UNCHANGED << fileExists, csvFile, phase, allDataLoaded, timers,
                    currentDataIndex, uncaught, ticks >>
    /\ UNCHANGED clientVars

\* startRealtimeSimulation(): one more repeating timer
StartRealtimeSimulation(t) == t + 1

\* .on('end', () => ...)
OnEnd ==
    /\ phase = "streaming"
    /\ ~uncaught
    /\ pos = Len(csvFile)
    /\ allDataLoaded' = TRUE
    /\ timers' = StartRealtimeSimulation(timers)
    /\ phase' = "ended"
    /\ UNCHANGED << fileExists, csvFile, pos, sensorData,
                    currentDataIndex, uncaught, ticks >>
    /\ UNCHANGED clientVars

\* the 'error' handler that starts the simulation on what has been read so far
OnErrorStarts ==
    /\ phase = "streaming"
    /\ ~uncaught
    /\ phase' = "errored"
    /\ timers' = StartRealtimeSimulation(timers)
    /\ UNCHANGED << fileExists, csvFile, pos, sensorData, allDataLoaded,
                    currentDataIndex, uncaught, ticks >>
    /\ UNCHANGED clientVars

\* .on('error', error => ...) on the parser stream: logs, changes nothing
OnError ==
    /\ phase = "streaming"
    /\ ~uncaught
    /\ phase' = "errored"
    /\ UNCHANGED << fileExists, csvFile, pos, sensorData, allDataLoaded, timers,
                    currentDataIndex, uncaught, ticks >>
    /\ UNCHANGED clientVars

\* an 'error' event of the fs read stream itself: .pipe() does not forward it
\* and no listener is attached to that stream, so the event loop receives it
OnReadError ==
    /\ phase = "streaming"
    /\ ~uncaught
    /\ phase' = "errored"
    /\ uncaught' = TRUE
    /\ UNCHANGED << fileExists, csvFile, pos, sensorData, allDataLoaded, timers,
                    currentDataIndex, ticks >>
    /\ UNCHANGED clientVars

\* ------------------------------------------------------- cursor and frames
\* sensorData[i]: undefined when i is not a position of the array
RecordAt(data, i) == IF i >= 0 /\ i < Len(data) THEN data[i + 1] ELSE Undefined

\* { ...currentData, realtime_timestamp, current_index, total_records }
Payload(data, i) ==
    [rec |-> RecordAt(data, i), current_index |-> i, total_records |-> Len(data)]

Frame(type, data) == [type |-> type, data |-> data]

\* the advance without the wrap-around
AdvanceNoWrap(i, n) == i + 1

\* the advance by two positions
AdvanceSkip(i, n) == (i + 2) % n

\* (currentDataIndex + 1) % sensorData.length
Advance(i, n) == (i + 1) % n

\* client.res.write(...) on client h: an open channel carries the frame, a
\* closed one drops it
WriteFrames(fr, h, msg) ==
    IF chan[h] = "open" THEN [fr EXCEPT ![h] = Append(@, msg)] ELSE fr

\* realtimeConnections.forEach(client => client.res.write(...)): visits the
\* clients in insertion order; the write on client th throws (th = 0: no write
\* throws), which ends the loop there.  fl collects the clients not reached
RECURSIVE ForEachWrite(_, _, _, _, _)
ForEachWrite(conns, fr, fl, msg, th) ==
    IF conns = <<>>
    THEN [frames |-> fr, failed |-> fl, threw |-> FALSE]
    ELSE LET h == Head(conns)
         IN  IF h = th
             THEN [frames |-> fr, failed |-> fl \cup {h}, threw |-> TRUE]
             ELSE ForEachWrite(Tail(conns), WriteFrames(fr, h, msg),
                               IF chan[h] = "open" THEN fl ELSE fl \cup {h}, msg, th)

\* broadcastRealtimeData(data)
BroadcastRealtimeData(data, th) ==
    ForEachWrite(realtimeConnections, frames, failed, Frame("realtime_update", data), th)

\* the clients whose res.write may throw in a broadcast, and 0 for none
Throwers == {0} \cup Range(realtimeConnections)

\* the timer callback without the test of the empty store: it broadcasts a frame
\* with no record in it
TickNoEmptyCheck(th) ==
    /\ timers > 0
    /\ ~uncaught
    /\ ticks < MaxTicks
    /\ ticks' = ticks + 1
    /\ LET next == IF Len(sensorData) = 0 THEN currentDataIndex
                   ELSE Advance(currentDataIndex, Len(sensorData))
           sent == BroadcastRealtimeData(Payload(sensorData, next), th)
       IN  /\ currentDataIndex' = next
           /\ frames' = sent.frames
           /\ failed' = sent.failed
           /\ uncaught' = sent.threw
    /\ UNCHANGED loadVars
    /\ UNCHANGED << realtimeConnections, chan, clientId >>

\* the timer callback that consumes the record it has sent
TickShifts(th) ==
    /\ timers > 0
    /\ ~uncaught
    /\ ticks < MaxTicks
    /\ ticks' = ticks + 1
    /\ IF Len(sensorData) = 0
       THEN /\ th = 0
            /\ UNCHANGED << currentDataIndex, frames, failed, uncaught, sensorData >>
       ELSE LET sent == BroadcastRealtimeData(Payload(sensorData, 0), th)
            IN  /\ currentDataIndex' = 0
                /\ sensorData' = Tail(sensorData)
                /\ frames' = sent.frames
                /\ failed' = sent.failed
                /\ uncaught' = sent.threw
    /\ UNCHANGED << fileExists, csvFile, phase, pos, allDataLoaded, timers >>
    /\ UNCHANGED << realtimeConnections, chan, clientId >>

\* the setInterval callback of startRealtimeSimulation; an exception that leaves
\* it reaches the event loop
Tick(th) ==
    /\ timers > 0
    /\ ~uncaught
    /\ ticks < MaxTicks
    /\ ticks' = ticks + 1
    /\ IF Len(sensorData) = 0
       THEN /\ th = 0
            /\ UNCHANGED << currentDataIndex, frames, failed, uncaught >>
       ELSE LET next == Advance(currentDataIndex, Len(sensorData))
                sent == BroadcastRealtimeData(Payload(sensorData, next), th)
            IN  /\ currentDataIndex' = next
                /\ frames' = sent.frames
                /\ failed' = sent.failed
                /\ uncaught' = sent.threw
    /\ UNCHANGED loadVars
    /\ UNCHANGED << realtimeConnections, chan, clientId >>

\* ------------------------------------------------------------ HTTP handlers
\* A handler that only reads is an operator giving its response in the current
\* state, and an action that leaves the state as it is.

\* app.get('/api/all-data'): the response
AllDataResponse ==
    IF Len(sensorData) = 0
    THEN [status |-> 404, body |-> NoData]
    ELSE [status |-> 200, body |-> sensorData]

\* app.get('/api/all-data')
GetAllData ==
    /\ Serving
    /\ UNCHANGED vars

\* app.get('/api/current-data'): the response
CurrentDataResponse ==
    IF Len(sensorData) = 0
    THEN [status |-> 404, body |-> NoData]
    ELSE [status |-> 200, body |-> Payload(sensorData, currentDataIndex)]

\* app.get('/api/current-data')
GetCurrentData ==
    /\ Serving
    /\ UNCHANGED vars

\* ------------------------------------------------------ statistics engine
RECURSIVE SumSeq(_)
SumSeq(s) == IF s = <<>> THEN 0 ELSE Head(s) + SumSeq(Tail(s))

\* f(...s) passes every entry of s as an argument of the call, and the engine
\* throws a RangeError (Maximum call stack size exceeded) when they do not fit
\* on its stack.  How many fit is a property of the engine and of the depth of
\* the call, not of the program: it is the input `stack` of the operators
\* below.  On the default stack of node 20 the handler has been seen to take
\* 123525 arguments when called straight from the request listener, 123442
\* behind the two middlewares of lines 9-10 and the route, 123038 and 122663
\* with 25 and 50 more frames under it, and 125703 from the top level of a
\* script.  SpreadFits lies under all of these and SpreadThrows over them, with
\* a margin for depths not measured: the margin only adds outcomes
SpreadFits == 120000
SpreadThrows == 126000
RangeError == [threw |-> "RangeError"]

\* the numbers of arguments the stack may take: the two ends of a range that
\* holds every capacity seen.  A store of up to SpreadFits records is spread on every stack, one of
\* SpreadThrows records or more on none, and one in between on some
StackArgs == {SpreadFits, SpreadThrows - 1}

\* Math.min(...s) and Math.max(...s) of a non-empty series, on a stack that
\* takes `stack` arguments
MinOf(s, stack) ==
    IF Len(s) > stack THEN RangeError
    ELSE CHOOSE m \in Range(s) : \A x \in Range(s) : m <= x
MaxOf(s, stack) ==
    IF Len(s) > stack THEN RangeError
    ELSE CHOOSE m \in Range(s) : \A x \in Range(s) : x <= m

\* sensorData.map(d => d.<field>), in halves
TempData == [i \in 1..Len(sensorData) |-> sensorData[i].temperature.v]
HumidityData == [i \in 1..Len(sensorData) |-> sensorData[i].humidity.v]
BatteryData == [i \in 1..Len(sensorData) |-> sensorData[i].battery_voltage.v]
MotionData == [i \in 1..Len(sensorData) |-> sensorData[i].motion.v]

\* the run-length scan that forgets to reset the counter
RECURSIVE ScanNoReset(_, _, _)
ScanNoReset(s, maxLength, currentLength) ==
    IF s = <<>> THEN maxLength
    ELSE IF Head(s) > 0
         THEN ScanNoReset(Tail(s), IF currentLength + 1 > maxLength
                                   THEN currentLength + 1 ELSE maxLength,
                          currentLength + 1)
         ELSE ScanNoReset(Tail(s), maxLength, currentLength)

\* the loop of findLongestActivation
RECURSIVE Scan(_, _, _)
Scan(s, maxLength, currentLength) ==
    IF s = <<>> THEN maxLength
    ELSE IF Head(s) > 0
         THEN Scan(Tail(s), IF currentLength + 1 > maxLength
                            THEN currentLength + 1 ELSE maxLength,
                   currentLength + 1)
         ELSE Scan(Tail(s), maxLength, 0)

\* findLongestActivation(motionData)
FindLongestActivation(motionData) == Scan(motionData, 0, 0)

\* the largest value toFixed(3) gives for a correlation, in thousandths
MaxMilli == 1000

\* a * a * rad <= q * q for a >= 1, rad >= 1, q >= 0, without leaving 32 bits
LeqSquares(a, rad, q) ==
    LET t == q \div a
        u == q % a
    IN  IF t > 46340 THEN TRUE
        ELSE LET d == rad - t * t
             IN  IF d <= 0 THEN TRUE
                 ELSE IF d > 2 * t THEN FALSE
                 ELSE a * d <= 2 * t * u + (u * u) \div a

\* the thousandth nearest to the exact quotient q / (2000 * sqrt(rad)), a half
\* going away from zero: the largest r in lo..hi with r = 0 or
\* (2r - 1)^2 * rad <= q^2.  What the double quotient does at a half is in ToFixed3
RECURSIVE Nearest(_, _, _, _)
Nearest(lo, hi, rad, q) ==
    IF lo >= hi THEN lo
    ELSE LET mid == (lo + hi + 1) \div 2
         IN  IF LeqSquares(2 * mid - 1, rad, q)
             THEN Nearest(mid, hi, rad, q)
             ELSE Nearest(lo, mid - 1, rad, q)

\* num / sqrt(rad) is the same number after a common factor is taken out
RECURSIVE Reduced(_, _)
Reduced(num, rad) ==
    IF num # 0 /\ num % 2 = 0 /\ rad % 4 = 0
    THEN Reduced(num \div 2, rad \div 4)
    ELSE [num |-> num, rad |-> rad]

RECURSIVE GCD(_, _)
GCD(a, b) == IF b = 0 THEN a ELSE GCD(b, a % b)

\* the largest s in lo..hi with s * s <= n
RECURSIVE RootIn(_, _, _)
RootIn(lo, hi, n) ==
    IF lo >= hi THEN lo
    ELSE LET mid == (lo + hi + 1) \div 2
         IN  IF mid * mid <= n THEN RootIn(mid, hi, n) ELSE RootIn(lo, mid - 1, n)

\* Math.sqrt(n) when it is an integer, 0 otherwise
ExactRoot(n) ==
    LET s == RootIn(0, 46340, n)
    IN  IF s * s = n THEN s ELSE 0

\* The ties of the rounding to three decimals.  The quotient lies half way
\* between two thousandths exactly when the denominator is an integer and the
\* quotient in lowest terms has the denominator 16, 80, 400 or 2000.  Over 16
\* the double quotient is exact and toFixed(3) rounds the half away from zero;
\* over 80, 400 and 2000 the quotient is rounded to a double, and for the
\* numerators below that double lies under the half in magnitude, so that
\* toFixed(3) rounds toward zero
QuotientUnder80 ==
    {3, 7, 17, 19, 23, 29, 33, 39, 41, 43, 51, 53, 61, 63, 71, 73}

QuotientUnder400 ==
    {3, 9, 21, 29, 31, 37, 41, 43, 47, 49, 57, 59, 61, 69, 71, 73, 83, 87,
     97, 99, 113, 117, 119, 121, 123, 139, 141, 143, 147, 149, 163, 167, 169,
     171, 173, 189, 191, 193, 197, 199, 201, 203, 207, 209, 211, 213, 217,
     219, 221, 223, 251, 253, 257, 259, 261, 263, 267, 269, 271, 273, 301,
     303, 307, 309, 311, 313, 317, 319, 321, 323, 351, 353, 357, 359, 361,
     363, 367, 369, 371, 373}

QuotientUnder2000 ==
    {9, 11, 13, 19, 23, 27, 31, 37, 39, 43, 51, 53, 59, 61, 71, 73, 77, 87,
     89, 91, 93, 103, 107, 109, 119, 121, 123, 141, 143, 147, 149, 151, 153,
     173, 177, 179, 181, 183, 187, 207, 209, 211, 213, 217, 237, 239, 241,
     243, 247, 249, 283, 287, 289, 291, 293, 297, 299, 301, 303, 307, 309,
     311, 347, 349, 351, 353, 357, 359, 361, 363, 367, 369, 371, 373, 407,
     409, 411, 413, 417, 419, 421, 423, 427, 429, 431, 433, 437, 469, 471,
     473, 477, 479, 481, 483, 487, 489, 491, 493, 497, 499, 563, 567, 569,
     571, 573, 577, 579, 581, 583, 587, 589, 591, 593, 597, 599, 601, 603,
     607, 609, 611, 613, 617, 619, 621, 623, 689, 691, 693, 697, 699, 701,
     703, 707, 709, 711, 713, 717, 719, 721, 723, 727, 729, 731, 733, 737,
     739, 741, 743, 747, 749, 813, 817, 819, 821, 823, 827, 829, 831, 833,
     837, 839, 841, 843, 847, 849, 851, 853, 857, 859, 861, 863, 867, 869,
     871, 873, 939, 941, 943, 947, 949, 951, 953, 957, 959, 961, 963, 967,
     969, 971, 973, 977, 979, 981, 983, 987, 989, 991, 993, 997, 999, 1001,
     1003, 1007, 1009, 1011, 1013, 1017, 1019, 1021, 1023, 1027, 1029, 1031,
     1033, 1037, 1039, 1041, 1043, 1047, 1049, 1051, 1053, 1057, 1059, 1061,
     1063, 1067, 1069, 1071, 1073, 1077, 1079, 1081, 1083, 1087, 1089, 1091,
     1093, 1097, 1099, 1101, 1103, 1107, 1109, 1111, 1113, 1117, 1119, 1121,
     1123, 1251, 1253, 1257, 1259, 1261, 1263, 1267, 1269, 1271, 1273, 1277,
     1279, 1281, 1283, 1287, 1289, 1291, 1293, 1297, 1299, 1301, 1303, 1307,
     1309, 1311, 1313, 1317, 1319, 1321, 1323, 1327, 1329, 1331, 1333, 1337,
     1339, 1341, 1343, 1347, 1349, 1351, 1353, 1357, 1359, 1361, 1363, 1367,
     1369, 1371, 1373, 1501, 1503, 1507, 1509, 1511, 1513, 1517, 1519, 1521,
     1523, 1527, 1529, 1531, 1533, 1537, 1539, 1541, 1543, 1547, 1549, 1551,
     1553, 1557, 1559, 1561, 1563, 1567, 1569, 1571, 1573, 1577, 1579, 1581,
     1583, 1587, 1589, 1591, 1593, 1597, 1599, 1601, 1603, 1607, 1609, 1611,
     1613, 1617, 1619, 1621, 1623, 1751, 1753, 1757, 1759, 1761, 1763, 1767,
     1769, 1771, 1773, 1777, 1779, 1781, 1783, 1787, 1789, 1791, 1793, 1797,
     1799, 1801, 1803, 1807, 1809, 1811, 1813, 1817, 1819, 1821, 1823, 1827,
     1829, 1831, 1833, 1837, 1839, 1841, 1843, 1847, 1849, 1851, 1853, 1857,
     1859, 1861, 1863, 1867, 1869, 1871, 1873}

\* the double abs / root lies under a half it is a tie with
QuotientUnderHalf(abs, root) ==
    /\ root > 0
    /\ abs > 0
    /\ LET g == GCD(abs, root)
           a == abs \div g
           b == root \div g
       IN  \/ b = 80 /\ a \in QuotientUnder80
           \/ b = 400 /\ a \in QuotientUnder400
           \/ b = 2000 /\ a \in QuotientUnder2000

\* (num / Math.sqrt(rad)).toFixed(3) for rad > 0, in thousandths: the
\* thousandth nearest to the double quotient
ToFixed3(num, rad) ==
    LET r == Reduced(num, rad)
        abs == IF r.num < 0 THEN 0 - r.num ELSE r.num
        m == Nearest(0, MaxMilli, r.rad, 2000 * abs)
        n == IF QuotientUnderHalf(abs, ExactRoot(r.rad)) THEN m - 1 ELSE m
    IN  IF r.num < 0 THEN 0 - n ELSE n

\* calculateCorrelation without the test of the denominator
CorrelationUnguarded(x, y) ==
    LET n == Len(x)
        sum_x == SumSeq(x)
        sum_y == SumSeq(y)
        sum_xy == SumSeq([i \in 1..n |-> x[i] * y[i]])
        sum_x2 == SumSeq([i \in 1..n |-> x[i] * x[i]])
        sum_y2 == SumSeq([i \in 1..n |-> y[i] * y[i]])
        numerator == n * sum_xy - sum_x * sum_y
        radicand == (n * sum_x2 - sum_x * sum_x) * (n * sum_y2 - sum_y * sum_y)
    IN  IF radicand = 0
        THEN [kind |-> "string", text |-> "NaN", milli |-> 0]
        ELSE [kind |-> "string", text |-> "fixed3", milli |-> ToFixed3(numerator, radicand)]

\* calculateCorrelation(x, y): the number 0, or the string toFixed(3) gives
\* (milli is its value in thousandths); the denominator is the square root of
\* radicand, and is 0 exactly when radicand is: on halves the sums and products
\* of the code are exact doubles, so its radicand is the one computed here
CalculateCorrelation(x, y) ==
    LET n == Len(x)
        sum_x == SumSeq(x)
        sum_y == SumSeq(y)
        sum_xy == SumSeq([i \in 1..n |-> x[i] * y[i]])
        sum_x2 == SumSeq([i \in 1..n |-> x[i] * x[i]])
        sum_y2 == SumSeq([i \in 1..n |-> y[i] * y[i]])
        numerator == n * sum_xy - sum_x * sum_y
        radicand == (n * sum_x2 - sum_x * sum_x) * (n * sum_y2 - sum_y * sum_y)
    IN  IF radicand = 0
        THEN [kind |-> "number", text |-> "0", milli |-> 0]
        ELSE [kind |-> "string", text |-> "fixed3", milli |-> ToFixed3(numerator, radicand)]

\* min, max, avg and std of a series: avg is the fraction num / den, std is
\* sqrt(radicand) / over
Aggregate(s, stack) ==
    [min |-> MinOf(s, stack), max |-> MaxOf(s, stack),
     avg |-> [num |-> SumSeq(s), den |-> Len(s)],
     std |-> [radicand |-> Len(s) * SumSeq([i \in 1..Len(s) |-> s[i] * s[i]])
                             - SumSeq(s) * SumSeq(s),
              over |-> Len(s)]]

\* motionData.filter(val => val > 0).length
Detections(s) == Cardinality({i \in 1..Len(s) : s[i] > 0})

\* The ties of the rounding to one decimal.  detections / length * 100 lies
\* half way between two tenths exactly when the fraction in lowest terms has
\* the denominator 16, 80, 400 or 2000.  Over 16 the double arithmetic is exact
\* and toFixed(1) rounds the half up; over 80, 400 and 2000 the quotient is
\* rounded to a double first, and for the numerators below the double product
\* lies under the half, so that toFixed(1) rounds down
Under80 ==
    {23, 41, 51}

Under400 ==
    {29, 57, 113, 201, 203, 207, 251, 253}

Under2000 ==
    {3, 9, 11, 19, 23, 37, 39, 43, 51, 53, 59, 61, 63, 71, 73, 81, 87, 91,
     103, 107, 111, 119, 121, 127, 141, 143, 147, 149, 151, 153, 157, 167,
     173, 177, 179, 181, 187, 189, 197, 207, 209, 211, 217, 219, 227, 237,
     239, 241, 247, 249, 257, 283, 287, 289, 291, 293, 297, 299, 301, 307,
     309, 317, 329, 347, 349, 351, 353, 357, 359, 363, 369, 373, 379, 383,
     389, 407, 409, 411, 413, 417, 419, 423, 427, 429, 433, 439, 443, 449,
     459, 469, 471, 473, 477, 479, 483, 487, 489, 493, 499, 503, 509, 519,
     563, 567, 569, 571, 573, 577, 579, 581, 583, 587, 589, 591, 593, 597,
     599, 601, 603, 607, 609, 613, 619, 623, 629, 633, 639, 641, 643, 653,
     663, 689, 691, 693, 697, 699, 701, 703, 709, 711, 713, 719, 721, 723,
     729, 731, 733, 741, 743, 751, 753, 761, 763, 773, 783, 793, 813, 817,
     819, 821, 823, 827, 829, 831, 833, 839, 841, 843, 849, 851, 853, 861,
     863, 871, 873, 881, 883, 891, 893, 903, 913, 939, 941, 943, 947, 949,
     951, 953, 959, 961, 963, 969, 971, 973, 979, 981, 983, 991, 993, 1001,
     1003, 1007, 1009, 1011, 1013, 1017, 1019, 1021, 1023, 1027, 1029, 1031,
     1033, 1037, 1039, 1041, 1043, 1047, 1049, 1051, 1053, 1057, 1059, 1061,
     1063, 1067, 1069, 1071, 1073, 1077, 1079, 1081, 1083, 1089, 1091, 1093,
     1099, 1101, 1103, 1111, 1113, 1121, 1123, 1131, 1133, 1141, 1143, 1153,
     1163, 1251, 1253, 1257, 1259, 1261, 1263, 1267, 1269, 1271, 1273, 1277,
     1279, 1281, 1283, 1287, 1291, 1293, 1297, 1301, 1303, 1307, 1311, 1313,
     1317, 1321, 1323, 1327, 1331, 1333, 1337, 1341, 1347, 1351, 1357, 1361,
     1367, 1371, 1377, 1381, 1387, 1391, 1397, 1401, 1407, 1411, 1421, 1431,
     1441, 1451, 1461, 1501, 1503, 1507, 1509, 1511, 1513, 1517, 1519, 1521,
     1523, 1527, 1529, 1531, 1533, 1537, 1541, 1543, 1547, 1551, 1553, 1557,
     1561, 1563, 1567, 1571, 1573, 1577, 1581, 1583, 1587, 1591, 1597, 1601,
     1607, 1611, 1617, 1621, 1627, 1631, 1637, 1641, 1647, 1651, 1657, 1661,
     1671, 1681, 1691, 1701, 1711, 1751, 1753, 1757, 1759, 1761, 1763, 1767,
     1769, 1771, 1773, 1777, 1779, 1781, 1783, 1787, 1791, 1793, 1797, 1801,
     1803, 1807, 1811, 1813, 1817, 1821, 1823, 1827, 1831, 1833, 1837, 1841,
     1847, 1851, 1857, 1861, 1867, 1871, 1877, 1881, 1887, 1891, 1897, 1901,
     1907, 1911, 1921, 1931, 1941, 1951, 1961}

\* the double detections / length * 100 lies under a half it is a tie with
UnderHalf(d, l) ==
    LET g == GCD(d, l)
        a == d \div g
        b == l \div g
    IN  \/ b = 80 /\ a \in Under80
        \/ b = 400 /\ a \in Under400
        \/ b = 2000 /\ a \in Under2000

\* (detections / length * 100).toFixed(1), in tenths of a percent
DetectionRate(s) ==
    LET d == Detections(s)
        l == Len(s)
        halfUp == (2000 * d + l) \div (2 * l)
    IN  IF UnderHalf(d, l) THEN halfUp - 1 ELSE halfUp

\* app.get('/api/statistics'): the response on a stack that takes `stack`
\* arguments; an exception thrown in the handler (the RangeError of Math.min on
\* a store too long to spread) is answered by Express with status 500
StatisticsResponse(stack) ==
    IF Len(sensorData) = 0
    THEN [status |-> 200, body |-> NoData]
    ELSE IF Len(TempData) > stack
    THEN [status |-> 500, body |-> RangeError]
    ELSE [status |-> 200,
          body |-> [total_records |-> Len(sensorData),
                    data_range |-> [start |-> sensorData[1].timestamp,
                                    end |-> sensorData[Len(sensorData)].timestamp],
                    temperature |-> Aggregate(TempData, stack),
                    humidity |-> Aggregate(HumidityData, stack),
                    battery_voltage |->
                        [min |-> MinOf(BatteryData, stack), max |-> MaxOf(BatteryData, stack),
                         avg |-> [num |-> SumSeq(BatteryData), den |-> Len(BatteryData)],
                         trend |-> BatteryData[Len(BatteryData)] - BatteryData[1]],
                    motion |-> [total_detections |-> Detections(MotionData),
                                detection_rate |-> DetectionRate(MotionData),
                                longest_activation |-> FindLongestActivation(MotionData)],
                    correlations |->
                        [temp_humidity |-> CalculateCorrelation(TempData, HumidityData),
                         temp_battery |-> CalculateCorrelation(TempData, BatteryData)]]]

\* app.get('/api/statistics')
GetStatistics(stack) ==
    /\ Serving
    /\ UNCHANGED vars

\* ---------------------------------------------------------------- recent data
\* the default of the limit
DefaultLimit == 50

\* the :limit path parameters tried: "-1", "0", "1", "abc"
LimitParams == {Cell(-2), Cell(0), Cell(2), Text}

\* Array.prototype.slice(start)
SliceFrom(data, start) ==
    LET len == Len(data)
        k == IF start < 0
             THEN (IF len + start > 0 THEN len + start ELSE 0)
             ELSE (IF start < len THEN start ELSE len)
    IN  SubSeq(data, k + 1, len)

\* parseInt(req.params.limit) || 50, as a count
LimitOf(param) == OrElse(ParseInt(param), Num(DefaultLimit * 2)).v \div 2

\* app.get('/api/recent-data/:limit'): the response
RecentDataResponse(param) ==
    [status |-> 200, body |-> SliceFrom(sensorData, 0 - LimitOf(param))]

\* app.get('/api/recent-data/:limit')
GetRecentData(param) ==
    /\ Serving
    /\ UNCHANGED vars

\* the action and speed fields a realtime-control body can carry
ControlActions == {"pause", "next"}
Speeds == {1}

\* app.post('/api/realtime-control'): the response
RealtimeControlResponse(action, speed) ==
    [status |-> 200,
     body |-> [status |-> "success", action |-> action, speed |-> speed,
               message |-> <<"Real-time simulation", action>>]]

\* a realtime-control handler wired to the cursor: "next" steps it
RealtimeControlSteps(action, speed) ==
    /\ Serving
    /\ currentDataIndex' =
          IF action = "next" /\ Len(sensorData) > 0
          THEN (currentDataIndex + speed) % Len(sensorData)
          ELSE currentDataIndex
    /\ UNCHANGED loadVars
    /\ UNCHANGED clientVars
    /\ UNCHANGED << uncaught, ticks >>

\* app.post('/api/realtime-control')
RealtimeControl(action, speed) ==
    /\ Serving
    /\ UNCHANGED vars

\* the client object of the next connection
FreeHandles == {h \in DOMAIN chan : chan[h] = "none"}
NewHandle == CHOOSE h \in FreeHandles : \A g \in FreeHandles : h <= g

\* the readings Date.now() can give for the next connection: the clock does not
\* go back, and only whether two readings are equal matters
LastStamp ==
    CHOOSE m \in {clientId[h] : h \in DOMAIN clientId} :
        \A h \in DOMAIN clientId : clientId[h] <= m
ClockReadings == {LastStamp, LastStamp + 1} \ {0}

\* Set.prototype.delete on the insertion-ordered set
SetDelete(conns, h) == SelectSeq(conns, LAMBDA g : g # h)

\* app.get('/api/realtime-stream'); t is the reading of Date.now().  body says
\* that the request came with a body that express.json() (line 10) has read
\* before the handler: the request is then complete, and Node emits its 'close'
\* event, with the connection open, before any other event is dispatched, so
\* the listener of line 185 takes the client out of the registry again
Subscribe(t, body) ==
    /\ Serving
    /\ FreeHandles # {}
    /\ LET h == NewHandle
       IN  /\ chan' = [chan EXCEPT ![h] = "open"]
           /\ clientId' = [clientId EXCEPT ![h] = t]
           /\ realtimeConnections' =
                 IF body THEN SetDelete(Append(realtimeConnections, h), h)
                 ELSE Append(realtimeConnections, h)
           /\ IF Len(sensorData) > 0
              THEN frames' = [frames EXCEPT ![h] =
                         Append(@, Frame("initial_data", Payload(sensorData, currentDataIndex)))]
              ELSE UNCHANGED frames
    /\ UNCHANGED failed
    /\ UNCHANGED loadVars
    /\ UNCHANGED << currentDataIndex, uncaught, ticks >>

\* req.on('close', () => ...) of client h, when the connection has closed (the
\* 'close' event of a request that came with a body is part of Subscribe)
ReqClose(h) ==
    /\ Serving
    /\ chan[h] = "closed"
    /\ realtimeConnections' = SetDelete(realtimeConnections, h)
    /\ UNCHANGED loadVars
    /\ UNCHANGED << chan, clientId, frames, failed, currentDataIndex, uncaught,
                    ticks >>

\* ------------------------------------------------------------ environment
\* the peer of client h goes away: its channel no longer carries frames
SocketClose(h) ==
    /\ Serving
    /\ chan[h] = "open"
    /\ chan' = [chan EXCEPT ![h] = "closed"]
    /\ UNCHANGED loadVars
    /\ UNCHANGED << realtimeConnections, clientId, frames, failed,
                    currentDataIndex, uncaught, ticks >>

Next ==
    \/ Listen
    \/ OnData
    \/ OnEnd
    \/ OnError
    \/ OnReadError
    \/ \E th \in Throwers : Tick(th)
    \/ GetAllData
    \/ GetCurrentData
    \/ \E k \in StackArgs : GetStatistics(k)
    \/ \E p \in LimitParams : GetRecentData(p)
    \/ \E a \in ControlActions, sp \in Speeds : RealtimeControl(a, sp)
    \/ \E t \in ClockReadings, body \in BOOLEAN : Subscribe(t, body)
    \/ \E h \in Handles : ReqClose(h)
    \/ \E h \in Handles : SocketClose(h)

Spec == Init /\ [][Next]_vars

\* ------------------------------------------- the statistics engine alone
\* the values of the temperature and humidity series (0, 1, 2) and of the
\* motion series (-1, 0, 1), in halves
SeriesVals == {0, 2, 4}
MotionVals == {-2, 0, 2}

\* a CSV row with the given temperature, humidity and motion
MkRow(t, h, m) ==
    [ time |-> "t1", timestamp |-> "", date |-> "",
      battery_voltage |-> Cell(7), battery |-> Absent, voltage |-> Absent,
      humidity |-> Cell(h), hum |-> Absent,
      motion |-> Cell(m),
      temperature |-> Cell(t), temp |-> Absent ]

\* a file with the given temperature and humidity series, and no motion
SeriesFile(ts, hs) == [i \in 1..Len(ts) |-> MkRow(ts[i], hs[i], 0)]

\* a file with the given motion series, temperature and humidity constant
MotionFile(ms) == [i \in 1..Len(ms) |-> MkRow(2, 2, ms[i])]

\* the server after the complete load of a file, before any tick: short files
\* with every temperature and humidity series, longer ones with every motion series
StatsInit ==
    /\ fileExists = TRUE
    /\ \/ \E n \in 0..MaxSeries :
             \E ts \in [1..n -> SeriesVals], hs \in [1..n -> SeriesVals] :
                csvFile = SeriesFile(ts, hs)
       \/ \E n \in 0..MaxMotion :
             \E ms \in [1..n -> MotionVals] : csvFile = MotionFile(ms)
    /\ phase = "ended"
    /\ pos = Len(csvFile)
    /\ sensorData = [i \in 1..Len(csvFile) |-> ProcessRow(csvFile[i], i)]
    /\ allDataLoaded = TRUE
    /\ realtimeConnections = <<>>
    /\ currentDataIndex = 0
    /\ timers = 1
    /\ uncaught = FALSE
    /\ chan = [h \in Handles |-> "none"]
    /\ clientId = [h \in Handles |-> 0]
    /\ frames = [h \in Handles |-> <<>>]
    /\ failed = {}
    /\ ticks = 0

StatsNext == \E k \in StackArgs : GetStatistics(k)

StatsSpec == StatsInit /\ [][StatsNext]_vars

\* ------------------------------------------------ the registry taken alone
\* the server after the complete load of a file, before any tick and before any
\* subscriber, with room for MaxSubscribers connections
HubInit ==
    /\ fileExists = TRUE
    /\ csvFile \in Files
    /\ phase = "ended"
    /\ pos = Len(csvFile)
    /\ sensorData = [i \in 1..Len(csvFile) |-> ProcessRow(csvFile[i], i)]
    /\ allDataLoaded = TRUE
    /\ realtimeConnections = <<>>
    /\ currentDataIndex = 0
    /\ timers = 1
    /\ uncaught = FALSE
    /\ chan = [h \in HubHandles |-> "none"]
    /\ clientId = [h \in HubHandles |-> 0]
    /\ frames = [h \in HubHandles |-> <<>>]
    /\ failed = {}
    /\ ticks = 0

\* subscribers come and go while the timer ticks
HubNext ==
    \/ \E th \in Throwers : Tick(th)
    \/ \E t \in ClockReadings, body \in BOOLEAN : Subscribe(t, body)
    \/ \E h \in HubHandles : ReqClose(h)
    \/ \E h \in HubHandles : SocketClose(h)

HubSpec == HubInit /\ [][HubNext]_vars

\* the timer fires again and again, the events of the load are dispatched, and
\* the 'close' event of a closed connection is dispatched
FairSpec ==
    /\ Spec
    /\ WF_vars(Listen)
    /\ WF_vars(OnData)
    /\ WF_vars(OnEnd)
    /\ WF_vars(\E th \in Throwers : Tick(th))
    /\ \A h \in Handles : WF_vars(ReqClose(h))

\* ------------------------------------------------------------------ claims
\* the store a complete load of sensor_data.csv builds
CompleteStore == [i \in 1..Len(csvFile) |-> ProcessRow(csvFile[i], i)]

Registered == Range(realtimeConnections)

\* the clients whose disconnect has been processed
Disconnected == {h \in DOMAIN chan : chan[h] = "closed" /\ h \notin Registered}

\* C1: while the load is in progress a reader of the store (here the bulk-data
\* handler) sees no data at all or the complete store, never a part of it.
C1_NoPartialStore ==
    (phase = "streaming" /\ Serving) =>
        \/ AllDataResponse.status = 404
        \/ AllDataResponse.body = CompleteStore

\* C2: a write that fails on one subscriber during a broadcast does not leave the
\* timer callback as an exception, and every other registered subscriber with an
\* open channel gets the frame of that tick.
C2_FailureIsLocal ==
    [][\A th \in Handles \cup {0} :
         (Tick(th) /\ Len(sensorData) > 0) =>
            /\ ~uncaught'
            /\ \A h \in Registered :
                 (h # th /\ chan[h] = "open") => Len(frames'[h]) = Len(frames[h]) + 1]_vars

\* the frames of subscriber h form an initial_data frame followed by
\* realtime_update frames whose indexes count on from the initial one, modulo the
\* total the initial frame reported
FrameSequenceOf(h) ==
    LET fs == frames[h]
        first == fs[1].data
    IN  (fs # <<>> /\ fs[1].type = "initial_data") =>
            \A k \in 2..Len(fs) :
                /\ fs[k].type = "realtime_update"
                /\ fs[k].data.total_records = first.total_records
                /\ fs[k].data.current_index =
                       (first.current_index + (k - 1)) % first.total_records

\* C3: a subscriber that connects to a non-empty store gets one initial_data
\* frame with the cursor index and the total N first, then one realtime_update
\* per tick, with indexes successive modulo N from the initial index on.
C3_InitialThenUpdates ==
    \A h \in Handles : FrameSequenceOf(h)

\* C4: whenever the store is non-empty the cursor is a position of the store,
\* also while the store grows, and every payload a reader got (current-data, an
\* initial frame, a tick's frame) carries the record that is at the index it reports.
C4_IndexValid ==
    /\ Len(sensorData) > 0 => currentDataIndex \in 0..(Len(sensorData) - 1)
    /\ CurrentDataResponse.status = 200 =>
          /\ CurrentDataResponse.body.rec # Undefined
          /\ CurrentDataResponse.body.rec = sensorData[CurrentDataResponse.body.current_index + 1]
    /\ \A h \in Handles : \A k \in 1..Len(frames[h]) :
          /\ frames[h][k].data.current_index \in 0..(Len(sensorData) - 1)
          /\ frames[h][k].data.rec = sensorData[frames[h][k].data.current_index + 1]

\* C4 witness: the cursor has wrapped around a store of two or more records and a
\* subscriber has got frames on the way.
C4_Witness ==
    /\ Len(sensorData) >= 2
    /\ ticks >= Len(sensorData)
    /\ currentDataIndex = 0
    /\ \E h \in Handles : Len(frames[h]) >= 3

\* C5: on a non-empty store of size N, k ticks from the start index 0 leave the
\* cursor at k mod N: each tick moves it by one, N ticks bring it back.
C5_AdvanceIsCyclic ==
    (timers > 0 /\ Len(sensorData) > 0) => currentDataIndex = ticks % Len(sensorData)

\* C5 witness: N >= 2 ticks on a store of N records have brought the cursor back
\* to the record it started from.
C5_Witness ==
    /\ Len(sensorData) >= 2
    /\ ticks = Len(sensorData)
    /\ currentDataIndex = 0

\* C6: a subscriber a delivery to which has failed is, some time later, no longer
\* in the registry.
C6_FailedIsRemoved ==
    \A h \in Handles : (h \in failed) ~> (h \notin Registered)

\* C7: a disconnect removes that subscriber only and keeps the order of the
\* others, changes nothing when repeated, and on a tick after it the disconnected
\* subscriber gets nothing while every remaining one gets one realtime_update
\* (but the one whose own write throws, if any).
C7_DisconnectIsExact ==
    [][/\ \A h \in HubHandles :
            ReqClose(h) =>
               /\ Range(realtimeConnections') = Registered \ {h}
               /\ Len(realtimeConnections') = Cardinality(Registered \ {h})
               /\ \A i, j \in 1..Len(realtimeConnections') :
                     i < j => \E m, n \in 1..Len(realtimeConnections) :
                                 /\ m < n
                                 /\ realtimeConnections[m] = realtimeConnections'[i]
                                 /\ realtimeConnections[n] = realtimeConnections'[j]
               /\ h \notin Registered => realtimeConnections' = realtimeConnections
       /\ \A th \in HubHandles \cup {0} :
            (Tick(th) /\ Len(sensorData) > 0 /\ Disconnected # {}) =>
               /\ \A h \in Disconnected : frames'[h] = frames[h]
               /\ \A h \in Registered :
                     (chan[h] = "open" /\ h # th) =>
                        /\ Len(frames'[h]) = Len(frames[h]) + 1
                        /\ frames'[h][Len(frames'[h])].type = "realtime_update"]_vars

\* C8: a broadcast hands the same frame, once, to every subscriber registered at
\* that time (with a channel that can carry it), and to nobody else.
C8_EveryoneOnce ==
    [][\A th \in Handles \cup {0} :
         (Tick(th) /\ Len(sensorData) > 0) =>
            LET msg == Frame("realtime_update", Payload(sensorData, currentDataIndex'))
            IN  \A h \in Handles :
                   frames'[h] = IF h \in Registered /\ chan[h] = "open"
                                THEN Append(frames[h], msg)
                                ELSE frames[h]]_vars

\* C9: when the file is missing or the stream reports an error, the load is over
\* with loaded = false and an empty store, and no scheduler runs.
C9_FailedLoadLeavesEmpty ==
    phase \in {"missing", "errored"} =>
        /\ ~allDataLoaded
        /\ sensorData = <<>>

\* C10: at most one repeating timer exists, whatever the events of the load, and
\* it exists exactly when the load has completed.
C10_OneScheduler ==
    /\ timers <= 1
    /\ timers = 1 <=> allDataLoaded
    /\ ticks > 0 => timers = 1

\* C10 witness: the load has completed and its one timer has fired more than once.
C10_Witness ==
    /\ allDataLoaded
    /\ timers = 1
    /\ ticks >= 2
    /\ Len(sensorData) >= 2

\* C11: the cursor changes in a tick of the timer only, and no request handler
\* (bulk-data, current-data, recent-data, statistics, subscribe, disconnect,
\* realtime-control) changes the cursor, the store or the scheduler.
C11_OnlyTickMovesCursor ==
    [][/\ currentDataIndex' # currentDataIndex => \E th \in Handles \cup {0} : Tick(th)
       /\ (\/ GetAllData
           \/ GetCurrentData
           \/ \E k \in StackArgs : GetStatistics(k)
           \/ \E p \in LimitParams : GetRecentData(p)
           \/ \E a \in ControlActions, sp \in Speeds : RealtimeControl(a, sp)
           \/ \E t \in ClockReadings, body \in BOOLEAN : Subscribe(t, body)
           \/ \E h \in Handles : ReqClose(h))
          => UNCHANGED << currentDataIndex, sensorData, allDataLoaded, timers >>]_vars

\* C11 witness: requests have been served while the cursor was away from 0: a
\* subscriber got its initial frame there and another one was disconnected.
C11_Witness ==
    /\ Disconnected # {}
    /\ \E h \in Registered :
          /\ frames[h] # <<>>
          /\ frames[h][1].type = "initial_data"
          /\ frames[h][1].data.current_index > 0
          /\ currentDataIndex = frames[h][1].data.current_index

\* C12: a tick of the timer that finds the store empty leaves the cursor where it
\* is, sends no frame to any subscriber and raises no error.
C12_EmptyTickDoesNothing ==
    [][\A th \in Handles \cup {0} :
         (Tick(th) /\ Len(sensorData) = 0) =>
            /\ currentDataIndex' = currentDataIndex
            /\ frames' = frames
            /\ failed' = failed
            /\ ~uncaught']_vars

\* C12 witness: the timer has fired twice on the empty store of a completed load
\* while a subscriber with an open channel was registered, and all is quiet.
C12_Witness ==
    /\ allDataLoaded
    /\ Len(sensorData) = 0
    /\ ticks >= 2
    /\ ~uncaught
    /\ currentDataIndex = 0
    /\ \E h \in Registered : chan[h] = "open" /\ frames[h] = <<>>

\* C13: while the store is empty, statistics and recent-data answer with the
\* "no data" error body, as the other read paths do, and do not throw.
C13_EmptyStoreIsNoData ==
    (Serving /\ Len(sensorData) = 0) =>
        /\ AllDataResponse.body = NoData
        /\ CurrentDataResponse.body = NoData
        /\ \A k \in StackArgs : StatisticsResponse(k).body = NoData
        /\ \A p \in LimitParams : RecentDataResponse(p).body = NoData

\* the limit a :limit parameter asks for: its integer, or 50 when it is not one
RequestedLimit(param) ==
    IF ~ParseInt(param).nan THEN ParseInt(param).v \div 2 ELSE DefaultLimit

\* the last n records of data in stored order, all of them when n exceeds the size
LastN(data, n) ==
    IF n <= 0 THEN <<>>
    ELSE SubSeq(data, IF Len(data) > n THEN Len(data) - n + 1 ELSE 1, Len(data))

\* C14: for every store and every limit parameter, recent-data answers with the
\* last `limit` records in stored order, the limit being 50 when the parameter is
\* not a number; the parameters 0 and -1 are numbers.
C14_RecentIsLastN ==
    Serving =>
        \A p \in LimitParams :
            RecentDataResponse(p).body = LastN(sensorData, RequestedLimit(p))

\* the parsed value of the first of the cells that holds a number, 0 when none does
RECURSIVE FirstNumeric(_)
FirstNumeric(cells) ==
    IF cells = <<>> THEN Num(0)
    ELSE IF Head(cells).p = "num" THEN Num(Head(cells).v)
    ELSE FirstNumeric(Tail(cells))

\* C15: every stored record holds, for each numeric field, the parsed value of
\* the first alias of its row that is present and parseable, in the order
\* temperature, temp / humidity, hum / battery_voltage, battery, voltage, and 0
\* when there is none; a first alias holding 0 is kept as 0.
C15_FirstAliasWins ==
    \A i \in 1..Len(sensorData) :
        LET row == csvFile[sensorData[i].id]
        IN  /\ sensorData[i].temperature = FirstNumeric(<< row.temperature, row.temp >>)
            /\ sensorData[i].humidity = FirstNumeric(<< row.humidity, row.hum >>)
            /\ sensorData[i].battery_voltage =
                   FirstNumeric(<< row.battery_voltage, row.battery, row.voltage >>)

\* a series all of whose entries are the same value
IsConstant(s) == \A i, j \in 1..Len(s) : s[i] = s[j]

\* the two results of calculateCorrelation the claim speaks of: the number 0 and
\* the string "1.000"
ZeroCorrelation == [kind |-> "number", text |-> "0", milli |-> 0]
FullCorrelation == [kind |-> "string", text |-> "fixed3", milli |-> MaxMilli]

IsRun(s, i, j) == \A k \in i..j : s[k] > 0

\* the length of the longest run of consecutive entries > 0, 0 when there is none
LongestRun(s) ==
    LET runs == {r \in (1..Len(s)) \X (1..Len(s)) : r[1] <= r[2] /\ IsRun(s, r[1], r[2])}
        lengths == {0} \cup {r[2] - r[1] + 1 : r \in runs}
    IN  CHOOSE m \in lengths : \A l \in lengths : l <= m

\* C17: findLongestActivation gives the length of the longest run of consecutive
\* entries with motion > 0, and 0 when no entry is positive.
C17_LongestActivation ==
    /\ FindLongestActivation(MotionData) = LongestRun(MotionData)
    /\ (\A i \in 1..Len(MotionData) : MotionData[i] <= 0) =>
           FindLongestActivation(MotionData) = 0
    /\ (\A i \in 1..Len(MotionData) : MotionData[i] > 0) =>
           FindLongestActivation(MotionData) = Len(MotionData)

\* C17 witness: the motion sequence [0,1,1,0,1,1,1,0], whose longest activation
\* is 3.
C17_Witness ==
    /\ MotionData = << 0, 2, 2, 0, 2, 2, 2, 0 >>
    /\ FindLongestActivation(MotionData) = 3

\* C18: once the load has completed, no action (tick, request, subscribe,
\* disconnect) changes the store or takes the flag back, and every frame sent
\* from then on reports the same total N.
C18_StoreImmutableAfterLoad ==
    [][allDataLoaded =>
          /\ allDataLoaded'
          /\ sensorData' = sensorData
          /\ sensorData = CompleteStore
          /\ \A h \in Handles :
                \A k \in (Len(frames[h]) + 1)..Len(frames'[h]) :
                    frames'[h][k].data.total_records = Len(CompleteStore)]_vars

\* C18 witness: on a loaded store of two or more records the timer has fired
\* twice, a subscriber that connected after the load holds its initial frame and
\* an update, both with the total N, and another client has disconnected.
C18_Witness ==
    /\ allDataLoaded
    /\ Len(sensorData) >= 2
    /\ ticks >= 2
    /\ Disconnected # {}
    /\ \E h \in Registered :
          /\ Len(frames[h]) >= 2
          /\ \A k \in 1..Len(frames[h]) :
                frames[h][k].data.total_records = Len(sensorData)

\* C19: while loaded = false no timer exists, the timer callback has never run,
\* the cursor is 0 and no subscriber holds a realtime_update; a load that has
\* failed (file missing, stream error) is in that condition for good.
C19_NoSchedulerBeforeLoad ==
    /\ ~allDataLoaded =>
          /\ timers = 0
          /\ ticks = 0
          /\ currentDataIndex = 0
          /\ \A h \in Handles : \A k \in 1..Len(frames[h]) :
                frames[h][k].type # "realtime_update"
    /\ phase \in {"missing", "errored"} => ~allDataLoaded
    /\ allDataLoaded => phase = "ended"

\* C19 witness: the stream has failed after a row was stored, and a subscriber
\* that connected afterwards holds its initial frame and nothing else.
C19_Witness ==
    /\ phase = "errored"
    /\ ~uncaught
    /\ Len(sensorData) > 0
    /\ \E h \in Registered :
          /\ chan[h] = "open"
          /\ Len(frames[h]) = 1
          /\ frames[h][1].type = "initial_data"

\* subscriber h holds a realtime_update for the record at index i
HasUpdateFor(h, i) ==
    \E k \in 1..Len(frames[h]) :
        /\ frames[h][k].type = "realtime_update"
        /\ frames[h][k].data.current_index = i

\* C20: with the timer firing again and again on a loaded store of N > 0
\* records, the cursor goes through the indexes and wraps around to 0, and a
\* subscriber registered when the timer starts and staying connected comes to
\* hold a realtime_update for every record.
C20_CursorCyclesForever ==
    /\ (allDataLoaded /\ Len(sensorData) > 0) ~>
          (ticks >= Len(sensorData) /\ currentDataIndex = 0)
    /\ \A h \in Handles :
          (allDataLoaded /\ Len(sensorData) > 0 /\ ticks = 0
              /\ h \in Registered /\ chan[h] = "open") ~>
          (\/ chan[h] # "open"
           \/ \A i \in 0..(Len(sensorData) - 1) : HasUpdateFor(h, i))

====
